---- MODULE Spec2Model ----
(***************************************************************************)
(* A model of src/src/main.rs: the bencode codec (Bencoded::serialize and  *)
(* decode_bencoded_value) and the command dispatch of main (decode, peers, *)
(* info, anything else).                                                   *)
(*                                                                         *)
(* Bytes are the naturals 0..255 and a buffer (&[u8], Vec<u8>, String) is  *)
(* a sequence of bytes.  A Rust panic is a failure outcome that ends the   *)
(* process; nothing after it runs.                                         *)
(***************************************************************************)
EXTENDS Integers, Sequences, FiniteSets, TLC

VARIABLES
    \* ---- the codec applied as a pure function
    input,      \* the buffer handed to decode_bencoded_value
    cpc,        \* "start" | "decoded" | "panicked" | "serialized"
    result,     \* what decode_bencoded_value came back with
    reenc,      \* what Bencoded::serialize produced for result.value
    \* ---- one run of main
    command,    \* args[1]
    cts,        \* the bytes of the torrent file named by args[2]
    shape,      \* how cts was put together (what the file is, not what main reads)
    src_info,   \* the bytes of the info dictionary inside cts
    pc,         \* where main is
    stdout,     \* the lines printed so far
    panic,      \* the panic that ended main, or NoPanic
    net,        \* the network operations performed so far
    metainf,    \* what the command read out of the file
    hashed,     \* the bytes fed to Sha1 (hasher.update)
    infohash,   \* hasher.finalize()
    body,       \* the tracker's response body
    bshape,     \* how body was put together
    peers       \* the parsed peer list

cvars == <<input, cpc, result, reenc>>
mvars == <<command, cts, shape, src_info, pc, stdout, panic, net, metainf,
           hashed, infohash, body, bshape, peers>>
vars == <<input, cpc, result, reenc, command, cts, shape, src_info, pc, stdout,
          panic, net, metainf, hashed, infohash, body, bshape, peers>>

----------------------------------------------------------------------------
(* Bytes and text *)

\* The ASCII codes the code names as byte literals (b'd', b'l', b'i', b'e', b':').
Ch == [d |-> 100, l |-> 108, i |-> 105, e |-> 101, colon |-> 58,
       minus |-> 45, plus |-> 43, zero |-> 48, nine |-> 57,
       dot |-> 46, under |-> 95, tilde |-> 126, percent |-> 37]

\* u8::is_ascii_digit
IsDigit(c) == c >= Ch.zero /\ c <= Ch.nine

\* usize / u8 to_string: the decimal digits of a natural number
RECURSIVE ToDec(_)
ToDec(n) == IF n < 10 THEN <<Ch.zero + n>> ELSE ToDec(n \div 10) \o <<Ch.zero + (n % 10)>>

\* The value of a string of decimal digits
RECURSIVE DigitsToNat(_)
DigitsToNat(ds) ==
    IF ds = <<>> THEN 0
    ELSE 10 * DigitsToNat(SubSeq(ds, 1, Len(ds) - 1)) + (ds[Len(ds)] - Ch.zero)

RECURSIVE StripZeros(_)
StripZeros(ds) == IF Len(ds) > 1 /\ ds[1] = Ch.zero THEN StripZeros(Tail(ds)) ELSE ds

\* Ord for Vec<u8> / String: byte-wise lexicographic order
LexLess(a, b) ==
    \E k \in 1..(Len(a) + 1) :
        /\ k <= Len(b)
        /\ \A j \in 1..(k - 1) : a[j] = b[j]
        /\ (k = Len(a) + 1 \/ a[k] < b[k])

\* a <= b for two digit strings without leading zeros
MagLeq(a, b) == Len(a) < Len(b) \/ (Len(a) = Len(b) /\ (a = b \/ LexLess(a, b)))

\* core::str::utf8_char_width
Utf8Width(b) ==
    IF b < 128 THEN 1
    ELSE IF b >= 194 /\ b <= 223 THEN 2
    ELSE IF b >= 224 /\ b <= 239 THEN 3
    ELSE IF b >= 240 /\ b <= 244 THEN 4
    ELSE 0

IsCont(s, k) == k <= Len(s) /\ s[k] >= 128 /\ s[k] <= 191

\* The second byte of a 3- or 4-byte sequence has its own range per lead byte.
SecondOk(s, k) ==
    /\ k + 1 <= Len(s)
    /\ LET b == s[k]
           c == s[k + 1]
       IN  \/ b = 224 /\ c >= 160 /\ c <= 191
           \/ b >= 225 /\ b <= 236 /\ c >= 128 /\ c <= 191
           \/ b = 237 /\ c >= 128 /\ c <= 159
           \/ b >= 238 /\ b <= 239 /\ c >= 128 /\ c <= 191
           \/ b = 240 /\ c >= 144 /\ c <= 191
           \/ b >= 241 /\ b <= 243 /\ c >= 128 /\ c <= 191
           \/ b = 244 /\ c >= 128 /\ c <= 143

\* One step of the UTF-8 reader at position k: whether a whole character starts
\* there, and how many bytes the step takes (for a broken sequence, the bytes
\* that matched before it broke; that is what from_utf8_lossy replaces).
Utf8Chunk(s, k) ==
    LET w == Utf8Width(s[k]) IN
    IF w = 1 THEN [valid |-> TRUE, len |-> 1]
    ELSE IF w = 2 THEN
        IF IsCont(s, k + 1) THEN [valid |-> TRUE, len |-> 2] ELSE [valid |-> FALSE, len |-> 1]
    ELSE IF w = 3 THEN
        IF ~SecondOk(s, k) THEN [valid |-> FALSE, len |-> 1]
        ELSE IF ~IsCont(s, k + 2) THEN [valid |-> FALSE, len |-> 2]
        ELSE [valid |-> TRUE, len |-> 3]
    ELSE IF w = 4 THEN
        IF ~SecondOk(s, k) THEN [valid |-> FALSE, len |-> 1]
        ELSE IF ~IsCont(s, k + 2) THEN [valid |-> FALSE, len |-> 2]
        ELSE IF ~IsCont(s, k + 3) THEN [valid |-> FALSE, len |-> 3]
        ELSE [valid |-> TRUE, len |-> 4]
    ELSE [valid |-> FALSE, len |-> 1]

\* String::from_utf8(v).is_ok()
RECURSIVE Utf8From(_, _)
Utf8From(s, k) ==
    IF k > Len(s) THEN TRUE
    ELSE LET c == Utf8Chunk(s, k) IN c.valid /\ Utf8From(s, k + c.len)

IsUtf8(s) == Utf8From(s, 1)

\* U+FFFD REPLACEMENT CHARACTER, as UTF-8
Replacement == <<239, 191, 189>>

\* String::from_utf8_lossy: every broken sequence becomes one U+FFFD
RECURSIVE LossyFrom(_, _)
LossyFrom(s, k) ==
    IF k > Len(s) THEN <<>>
    ELSE LET c == Utf8Chunk(s, k) IN
         (IF c.valid THEN SubSeq(s, k, k + c.len - 1) ELSE Replacement)
             \o LossyFrom(s, k + c.len)

from_utf8_lossy(s) == LossyFrom(s, 1)

----------------------------------------------------------------------------
(* Integers.  An i64 is kept as its sign and its decimal magnitude (digits *)
(* without leading zeros), so that the whole 64-bit range is there: parse  *)
(* rejects what does not fit, to_string prints the value back.             *)

I64MaxMag == <<57, 50, 50, 51, 51, 55, 50, 48, 51, 54, 56, 53, 52, 55, 55, 53, 56, 48, 55>>
I64MinMag == <<57, 50, 50, 51, 51, 55, 50, 48, 51, 54, 56, 53, 52, 55, 55, 53, 56, 48, 56>>
U64MaxMag == <<49, 56, 52, 52, 54, 55, 52, 52, 48, 55, 51, 55, 48, 57, 53, 53, 49, 54, 49, 53>>

ParseErr == [ok |-> FALSE]

\* str::parse::<i64>: an optional single sign, then one or more ASCII digits,
\* and the value must fit.
ParseI64(s) ==
    IF s = <<>> THEN ParseErr
    ELSE IF (s[1] = Ch.plus \/ s[1] = Ch.minus) /\ Len(s) = 1 THEN ParseErr
    ELSE LET neg == s[1] = Ch.minus
             ds == IF s[1] = Ch.plus \/ s[1] = Ch.minus THEN Tail(s) ELSE s
         IN  IF \E k \in 1..Len(ds) : ~IsDigit(ds[k]) THEN ParseErr
             ELSE LET mag == StripZeros(ds) IN
                  IF ~MagLeq(mag, IF neg THEN I64MinMag ELSE I64MaxMag) THEN ParseErr
                  ELSE [ok |-> TRUE, v |-> [neg |-> neg /\ mag # <<Ch.zero>>, mag |-> mag]]

\* i64::to_string
I64ToString(i) == IF i.neg THEN <<Ch.minus>> \o i.mag ELSE i.mag

\* The largest number of digits a length can have and still be an index into a
\* buffer of the model: a longer one is beyond every buffer.
IndexDigits == 6

\* str::parse::<usize>: an optional '+', then ASCII digits, and the value must
\* fit 64 bits.  A value that fits but is beyond every buffer is "huge".
ParseUsize(s) ==
    IF s = <<>> THEN ParseErr
    ELSE IF s[1] = Ch.plus /\ Len(s) = 1 THEN ParseErr
    ELSE LET ds == IF s[1] = Ch.plus THEN Tail(s) ELSE s IN
         IF \E k \in 1..Len(ds) : ~IsDigit(ds[k]) THEN ParseErr
         ELSE LET mag == StripZeros(ds) IN
              IF ~MagLeq(mag, U64MaxMag) THEN ParseErr
              ELSE IF Len(mag) > IndexDigits THEN [ok |-> TRUE, huge |-> TRUE, n |-> 0]
              ELSE [ok |-> TRUE, huge |-> FALSE, n |-> DigitsToNat(mag)]

----------------------------------------------------------------------------
(* enum Bencoded *)

BString(v) == [tag |-> "String", v |-> v]
BInteger(i) == [tag |-> "Integer", v |-> i]
BList(l) == [tag |-> "List", v |-> l]
\* A BTreeMap<String, Bencoded> is the sequence of its <<key, value>> entries
\* in ascending key order.
BDict(d) == [tag |-> "Dict", v |-> d]

\* BTreeMap::insert: replaces the value of a key already there, otherwise
\* puts the entry at its place in the order.
BTreeInsert(d, k, v) ==
    LET below == SelectSeq(d, LAMBDA en : LexLess(en[1], k))
        above == SelectSeq(d, LAMBDA en : LexLess(k, en[1]))
    IN  below \o <<(<<k, v>>)>> \o above

\* BTreeMap::contains_key
BTreeHas(d, k) == \E n \in 1..Len(d) : d[n][1] = k

\* BTreeMap::get, for a key that is there
BTreeGet(d, k) == d[CHOOSE n \in 1..Len(d) : d[n][1] = k][2]

----------------------------------------------------------------------------
(* decode_bencoded_value *)

Panic(msg) == [ok |-> FALSE, msg |-> msg]
Decoded(v, rest) == [ok |-> TRUE, value |-> v, rest |-> rest]

\* The index of the first byte c of s, or 0
FirstIndex(s, c) ==
    IF \E k \in 1..Len(s) : s[k] = c
    THEN CHOOSE k \in 1..Len(s) : s[k] = c /\ \A j \in 1..(k - 1) : s[j] # c
    ELSE 0

\* chars.map_while(|c| if *c != b'e' { Some(*c) } else { None }).collect()
Numerals(chars) ==
    LET k == FirstIndex(chars, Ch.e) IN
    IF k = 0 THEN chars ELSE SubSeq(chars, 1, k - 1)

\* Some(b'i') => ...
DecodeInteger(encoded_value) ==
    LET numerals == Numerals(Tail(encoded_value)) IN
    IF ~IsUtf8(numerals) THEN Panic("number must be valid utf-8")
    ELSE LET integer == ParseI64(numerals) IN
         IF ~integer.ok THEN Panic("failed to parse numerals into integer")
         ELSE IF Len(numerals) + 2 > Len(encoded_value)
              THEN Panic("range start index out of range for slice")
              ELSE Decoded(BInteger(integer.v),
                           SubSeq(encoded_value, Len(numerals) + 3, Len(encoded_value)))

\* Mutant of DecodeString: a string that declares more bytes than are left
\* takes the bytes there are (a clamped slice) instead of panicking.
DecodeStringClamped(encoded_value) ==
    LET colon == FirstIndex(encoded_value, Ch.colon) IN
    IF colon = 0 THEN Panic("index out of bounds")
    ELSE LET number == ParseUsize(SubSeq(encoded_value, 1, colon - 1)) IN
         IF ~number.ok THEN Panic("called unwrap on an Err value")
         ELSE LET end == IF number.huge \/ colon + number.n > Len(encoded_value)
                         THEN Len(encoded_value) ELSE colon + number.n
              IN  Decoded(BString(SubSeq(encoded_value, colon + 1, end)),
                          SubSeq(encoded_value, end + 1, Len(encoded_value)))

\* Some(c) if c.is_ascii_digit() => ...
DecodeString(encoded_value) ==
    LET colon == FirstIndex(encoded_value, Ch.colon) IN
    IF colon = 0 THEN Panic("index out of bounds")
    ELSE LET colon_index == colon - 1
             number_string == SubSeq(encoded_value, 1, colon_index)
         IN  IF ~IsUtf8(number_string) THEN Panic("number string must be valid utf-8")
             ELSE LET number == ParseUsize(number_string) IN
                  IF ~number.ok THEN Panic("called unwrap on an Err value")
                  ELSE IF number.huge \/ colon_index + 1 + number.n > Len(encoded_value)
                       THEN Panic("range end index out of range for slice")
                       ELSE Decoded(
                              BString(SubSeq(encoded_value, colon_index + 2,
                                             colon_index + 1 + number.n)),
                              SubSeq(encoded_value, colon_index + 2 + number.n,
                                     Len(encoded_value)))

\* Mutant of AfterTerminator: the chars.next() that takes the 'e' is left out,
\* so the remaining bytes start at the 'e'.
AfterTerminatorKeepsE(encoded_value, chars) ==
    SubSeq(encoded_value, Len(encoded_value) - Len(chars) + 1, Len(encoded_value))

\* &encoded_value[encoded_value.len() - chars.count()..], chars being at the 'e'
\* that chars.next() then takes
AfterTerminator(encoded_value, chars) ==
    SubSeq(encoded_value, Len(encoded_value) - (Len(chars) - 1) + 1, Len(encoded_value))

\* chars.peek() != Some(&&b'e')
NotAtTerminator(chars) == chars = <<>> \/ chars[1] # Ch.e

RECURSIVE decode_bencoded_value(_)
RECURSIVE DecodeDictLoop(_, _, _)
RECURSIVE DecodeListLoop(_, _, _)

\* Some(b'd') => the while loop and what follows it
DecodeDictLoop(dict, chars, encoded_value) ==
    IF NotAtTerminator(chars)
    THEN LET key == decode_bencoded_value(chars) IN
         IF ~key.ok THEN key
         ELSE IF key.value.tag # "String"
              THEN Panic("bencoded dictionary keys must be strings")
              ELSE LET val == decode_bencoded_value(key.rest) IN
                   IF ~val.ok THEN val
                   ELSE IF ~IsUtf8(key.value.v) THEN Panic("key is valid utf-8")
                   ELSE DecodeDictLoop(BTreeInsert(dict, key.value.v, val.value),
                                       val.rest, encoded_value)
    ELSE Decoded(BDict(dict), AfterTerminator(encoded_value, chars))

\* Some(b'l') => the while loop and what follows it
DecodeListLoop(vals, chars, encoded_value) ==
    IF NotAtTerminator(chars)
    THEN LET v == decode_bencoded_value(chars) IN
         IF ~v.ok THEN v
         ELSE DecodeListLoop(Append(vals, v.value), v.rest, encoded_value)
    ELSE Decoded(BList(vals), AfterTerminator(encoded_value, chars))

decode_bencoded_value(encoded_value) ==
    IF encoded_value = <<>> THEN Panic("Unhandled encoded value")
    ELSE LET c == encoded_value[1] IN
         IF c = Ch.d THEN DecodeDictLoop(<<>>, Tail(encoded_value), encoded_value)
         ELSE IF c = Ch.l THEN DecodeListLoop(<<>>, Tail(encoded_value), encoded_value)
         ELSE IF c = Ch.i THEN DecodeInteger(encoded_value)
         ELSE IF IsDigit(c) THEN DecodeString(encoded_value)
         ELSE Panic("Unhandled encoded value")

----------------------------------------------------------------------------
(* Bencoded::serialize *)

\* The sequences of ss, one after the other
RECURSIVE Concat(_)
Concat(ss) ==
    IF ss = <<>> THEN <<>>
    ELSE IF Len(ss) = 1 THEN ss[1]
    ELSE LET h == Len(ss) \div 2 IN
         Concat(SubSeq(ss, 1, h)) \o Concat(SubSeq(ss, h + 1, Len(ss)))

\* iter.flat_map(f).collect::<Vec<u8>>() for an iterator over a sequence
FlatMap(f(_), s) == Concat([k \in 1..Len(s) |-> f(s[k])])

\* v.len().to_string(), b':', v
SerializeString(v) == ToDec(Len(v)) \o <<Ch.colon>> \o v

\* Mutant of SerializeInteger: the sign is lost.
SerializeIntegerUnsigned(i) == <<Ch.i>> \o i.mag \o <<Ch.e>>

\* b'i', i.to_string(), b'e'
SerializeInteger(i) == <<Ch.i>> \o I64ToString(i) \o <<Ch.e>>

RECURSIVE serialize(_)
serialize(self) ==
    IF self.tag = "String" THEN SerializeString(self.v)
    ELSE IF self.tag = "Integer" THEN SerializeInteger(self.v)
    ELSE IF self.tag = "List"
         THEN <<Ch.l>> \o FlatMap(LAMBDA b : serialize(b), self.v) \o <<Ch.e>>
         ELSE <<Ch.d>>
              \o FlatMap(LAMBDA en : ToDec(Len(en[1])) \o <<Ch.colon>> \o en[1]
                                         \o serialize(en[2]), self.v)
              \o <<Ch.e>>

----------------------------------------------------------------------------
(* main: the names and texts it uses *)

KeyAnnounce == <<97, 110, 110, 111, 117, 110, 99, 101>>                    \* announce
KeyInfo == <<105, 110, 102, 111>>                                          \* info
KeyLength == <<108, 101, 110, 103, 116, 104>>                              \* length
KeyName == <<110, 97, 109, 101>>                                           \* name
KeyPieceLength == <<112, 105, 101, 99, 101, 32, 108, 101, 110, 103, 116, 104>>  \* piece length
KeyPieces == <<112, 105, 101, 99, 101, 115>>                               \* pieces
KeyFailureReason == <<102, 97, 105, 108, 117, 114, 101, 32, 114, 101, 97, 115, 111, 110>>  \* failure reason
KeyPeers == <<112, 101, 101, 114, 115>>                                    \* peers

CmdDecode == <<100, 101, 99, 111, 100, 101>>                               \* decode
CmdPeers == <<112, 101, 101, 114, 115>>                                    \* peers
CmdInfo == <<105, 110, 102, 111>>                                          \* info

\* peer_id=00112233445566778899&left=
QueryHead == <<112, 101, 101, 114, 95, 105, 100, 61, 48, 48, 49, 49, 50, 50, 51, 51, 52, 52,
               53, 53, 54, 54, 55, 55, 56, 56, 57, 57, 38, 108, 101, 102, 116, 61>>
\* &port=6881&uploaded=0&downloaded=0&compact=1
QueryTail == <<38, 112, 111, 114, 116, 61, 54, 56, 56, 49, 38, 117, 112, 108, 111, 97, 100,
               101, 100, 61, 48, 38, 100, 111, 119, 110, 108, 111, 97, 100, 101, 100, 61, 48,
               38, 99, 111, 109, 112, 97, 99, 116, 61, 49>>
\* &info_hash=
QueryInfoHash == <<38, 105, 110, 102, 111, 95, 104, 97, 115, 104, 61>>

TxtTrackerUrl == <<84, 114, 97, 99, 107, 101, 114, 32, 85, 82, 76, 58, 32>>      \* "Tracker URL: "
TxtLength == <<76, 101, 110, 103, 116, 104, 58, 32>>                              \* "Length: "
TxtInfoHash == <<73, 110, 102, 111, 32, 72, 97, 115, 104, 58, 32>>                \* "Info Hash: "
TxtPieceLength == <<80, 105, 101, 99, 101, 32, 76, 101, 110, 103, 116, 104, 58, 32>>  \* "Piece Length: "
TxtPieceHashes == <<80, 105, 101, 99, 101, 32, 72, 97, 115, 104, 101, 115, 58>>   \* "Piece Hashes:"
\* "unknown command: "
TxtUnknown == <<117, 110, 107, 110, 111, 119, 110, 32, 99, 111, 109, 109, 97, 110, 100, 58, 32>>

\* No response has been read
NoBody == [top |-> "none", fr |-> "absent", peers |-> "absent", n |-> 0]

NoPanic == [msg |-> "", text |-> <<>>]
\* panic!(msg) or expect(msg), with the text the message is formatted with
Abort(msg, text) == [msg |-> msg, text |-> text]

----------------------------------------------------------------------------
(* main, peers: the torrent file read with decode_bencoded_value *)

\* lines 218-247: read tracker, length and the info dictionary out of the
\* decoded value, or panic
ProjectMetainfo(decoded_value) ==
    IF decoded_value.tag # "Dict" THEN Abort("torrent file isn't a bencoded dict", <<>>)
    ELSE LET d == decoded_value.v IN
         IF ~BTreeHas(d, KeyAnnounce)
         THEN Abort("torrent file dict must contain announce key", <<>>)
         ELSE IF ~BTreeHas(d, KeyInfo)
         THEN Abort("torrent file dict must contain info key", <<>>)
         ELSE IF BTreeGet(d, KeyAnnounce).tag # "String"
         THEN Abort("torrent file announce key's value is not a string", <<>>)
         ELSE IF ~IsUtf8(BTreeGet(d, KeyAnnounce).v)
         THEN Abort("announce value must be valid utf-8", <<>>)
         ELSE IF BTreeGet(d, KeyInfo).tag # "Dict"
         THEN Abort("torrent file is missing info dict", <<>>)
         ELSE LET inf == BTreeGet(d, KeyInfo).v IN
              IF ~BTreeHas(inf, KeyLength) \/ BTreeGet(inf, KeyLength).tag # "Integer"
              THEN Abort("info.length is not an integer", <<>>)
              ELSE [msg |-> "",
                    tracker |-> BTreeGet(d, KeyAnnounce).v,
                    length |-> BTreeGet(inf, KeyLength).v,
                    info_dict |-> BDict(inf)]

\* u8 formatted {:02X}: one hexadecimal digit, upper case
HexUpperDigitLower(n) == IF n < 10 THEN Ch.zero + n ELSE 97 + (n - 10)

HexUpperDigit(n) == IF n < 10 THEN Ch.zero + n ELSE 65 + (n - 10)

\* the match arm b'0'..=b'9' | b'A'..=b'Z' | b'a'..=b'z' | b'-' | b'.' | b'_' | b'~'
KeptAsIs(b) ==
    \/ b >= Ch.zero /\ b <= Ch.nine
    \/ b >= 65 /\ b <= 90
    \/ b >= 97 /\ b <= 122
    \/ b = Ch.minus
    \/ b = Ch.dot
    \/ b = Ch.under
    \/ b = Ch.tilde

\* lines 253-261
ih_urlenc(hash) ==
    FlatMap(LAMBDA b : IF KeptAsIs(b) THEN <<b>>
                       ELSE <<Ch.percent, HexUpperDigit(b \div 16), HexUpperDigit(b % 16)>>,
            hash)

\* Url::set_query for an http URL: the bytes of the special-query set (controls,
\* space, '"', '#', '<', '>', the apostrophe, and everything from 0x7F up)
\* are percent-encoded, the others are copied.
UrlSetQuery(q) ==
    FlatMap(LAMBDA b : IF b <= 32 \/ b >= 127 \/ b \in {34, 35, 39, 60, 62}
                       THEN <<Ch.percent, HexUpperDigit(b \div 16), HexUpperDigit(b % 16)>>
                       ELSE <<b>>,
            q)

\* What reqwest accepts as the URL of a request: of the announce texts of the
\* model, the ones that begin with http:// and name a host.
IsUrl(tracker) ==
    /\ Len(tracker) > 7
    /\ SubSeq(tracker, 1, 7) = <<104, 116, 116, 112, 58, 47, 47>>

\* lines 266-283: the query of the request as sent
RequestQuery(length, hash) ==
    UrlSetQuery(QueryHead \o I64ToString(length) \o QueryTail \o QueryInfoHash
                \o ih_urlenc(hash))

----------------------------------------------------------------------------
(* main, peers: the tracker's response *)

\* [u8]::chunks(n)
RECURSIVE Chunks(_, _)
Chunks(s, n) ==
    IF s = <<>> THEN <<>>
    ELSE IF Len(s) <= n THEN <<s>>
    ELSE <<SubSeq(s, 1, n)>> \o Chunks(SubSeq(s, n + 1, Len(s)), n)

\* Mutant of FromBeBytes: the two bytes are read low byte first.
FromLeBytes(skbytes) == skbytes[1] + 256 * skbytes[2]

\* u16::from_be_bytes
FromBeBytes(skbytes) == 256 * skbytes[1] + skbytes[2]

\* Mutant of PeerChunks: chunks_exact, which leaves a short last chunk out.
PeerChunksExact(s) == SelectSeq(Chunks(s, 6), LAMBDA c : Len(c) = 6)

\* s.chunks(6)
PeerChunks(s) == Chunks(s, 6)

\* lines 308-320: the closure on every chunk, collected; &peer[0..4] and
\* &peer[4..6] panic on a chunk that is too short
ParsePeers(s) ==
    LET cs == PeerChunks(s) IN
    IF \E k \in 1..Len(cs) : Len(cs[k]) < 4
    THEN Abort("range end index 4 out of range for slice", <<>>)
    ELSE IF \E k \in 1..Len(cs) : Len(cs[k]) < 6
    THEN Abort("range end index 6 out of range for slice", <<>>)
    ELSE [msg |-> "",
          peers |-> [k \in 1..Len(cs) |->
                        [ip |-> SubSeq(cs[k], 1, 4), port |-> FromBeBytes(SubSeq(cs[k], 5, 6))]]]

\* Mutant of TrackerResponse: peers is looked at first, the failure reason
\* only when there is no peers key.
TrackerResponsePeersFirst(announce) ==
    IF announce.tag # "Dict" THEN Abort("got non-dict response from tracker", <<>>)
    ELSE LET d == announce.v IN
         IF BTreeHas(d, KeyPeers) /\ BTreeGet(d, KeyPeers).tag = "String"
         THEN ParsePeers(BTreeGet(d, KeyPeers).v)
         ELSE IF BTreeHas(d, KeyFailureReason) /\ BTreeGet(d, KeyFailureReason).tag = "String"
         THEN Abort("tracker responded with an error: ",
                    from_utf8_lossy(BTreeGet(d, KeyFailureReason).v))
         ELSE Abort("tracker response does not contain peers key", <<>>)

\* lines 298-327: the match on the decoded response
TrackerResponse(announce) ==
    IF announce.tag # "Dict" THEN Abort("got non-dict response from tracker", <<>>)
    ELSE LET d == announce.v IN
         IF BTreeHas(d, KeyFailureReason) /\ BTreeGet(d, KeyFailureReason).tag = "String"
         THEN Abort("tracker responded with an error: ",
                    from_utf8_lossy(BTreeGet(d, KeyFailureReason).v))
         ELSE IF ~BTreeHas(d, KeyPeers)
         THEN Abort("tracker response does not contain peers key", <<>>)
         ELSE IF BTreeGet(d, KeyPeers).tag # "String"
         THEN Abort("tracker response contains peers not encoded as string", <<>>)
         ELSE ParsePeers(BTreeGet(d, KeyPeers).v)

\* Display for SocketAddrV4: a.b.c.d:port in decimal
DisplayAddr(p) ==
    ToDec(p.ip[1]) \o <<Ch.dot>> \o ToDec(p.ip[2]) \o <<Ch.dot>> \o ToDec(p.ip[3])
        \o <<Ch.dot>> \o ToDec(p.ip[4]) \o <<Ch.colon>> \o ToDec(p.port)

----------------------------------------------------------------------------
(* main, info: the torrent file read with serde_bencode into Metainfo *)

\* A field of a derived Deserialize struct: there, and of the variant the
\* field's type takes (String: a byte string that is UTF-8; ByteBuf: a byte
\* string; u64: an integer that is not negative).
FieldOk(d, key, type) ==
    /\ BTreeHas(d, key)
    /\ LET v == BTreeGet(d, key) IN
       \/ type = "String" /\ v.tag = "String" /\ IsUtf8(v.v)
       \/ type = "ByteBuf" /\ v.tag = "String"
       \/ type = "u64" /\ v.tag = "Integer" /\ ~v.v.neg
       \/ type = "InfoDict" /\ v.tag = "Dict"

\* serde_bencode::from_bytes::<Metainfo>: every field of Metainfo and InfoDict
\* must be there with its type; keys that are no field are passed over.  The
\* files of the model have unique text keys, and on those serde_bencode reads
\* dictionaries as decode_bencoded_value does.
serde_from_bytes(bytes) ==
    LET r == decode_bencoded_value(bytes) IN
    IF ~r.ok \/ r.value.tag # "Dict" THEN [ok |-> FALSE]
    ELSE LET d == r.value.v IN
         IF ~FieldOk(d, KeyAnnounce, "String") \/ ~FieldOk(d, KeyInfo, "InfoDict")
         THEN [ok |-> FALSE]
         ELSE LET inf == BTreeGet(d, KeyInfo).v IN
              IF \/ ~FieldOk(inf, KeyName, "String")
                 \/ ~FieldOk(inf, KeyPieceLength, "u64")
                 \/ ~FieldOk(inf, KeyPieces, "ByteBuf")
                 \/ ~FieldOk(inf, KeyLength, "u64")
              THEN [ok |-> FALSE]
              ELSE [ok |-> TRUE,
                    announce |-> BTreeGet(d, KeyAnnounce).v,
                    info |-> [name |-> BTreeGet(inf, KeyName).v,
                              piece_length |-> BTreeGet(inf, KeyPieceLength).v,
                              pieces |-> BTreeGet(inf, KeyPieces).v,
                              length |-> BTreeGet(inf, KeyLength).v]]

\* serde_bencode::to_bytes(&metainf.info): the four fields of InfoDict under
\* their serde names, in ascending key order
serde_to_bytes(info) ==
    <<Ch.d>>
        \o SerializeString(KeyLength) \o SerializeInteger(info.length)
        \o SerializeString(KeyName) \o SerializeString(info.name)
        \o SerializeString(KeyPieceLength) \o SerializeInteger(info.piece_length)
        \o SerializeString(KeyPieces) \o SerializeString(info.pieces)
        \o <<Ch.e>>

\* one hexadecimal digit, lower case
HexLowerDigit(n) == IF n < 10 THEN Ch.zero + n ELSE 97 + (n - 10)

\* hex::encode
HexEncode(bytes) == FlatMap(LAMBDA b : <<HexLowerDigit(b \div 16), HexLowerDigit(b % 16)>>, bytes)

----------------------------------------------------------------------------
(* The codec applied to buffers: decode_bencoded_value, then serialize on  *)
(* the value it returned.                                                  *)

\* The pieces the buffers are put together from.
TokList == <<108>>                      \* l
TokDict == <<100>>                      \* d
TokEnd == <<101>>                       \* e
TokNeg == <<105, 45, 51, 101>>          \* i-3e
TokStrA == <<49, 58, 97>>               \* 1:a
TokEmpty == <<48, 58>>                  \* 0:
TokNoDigits == <<105, 45, 101>>         \* i-e
TokShort == <<53, 58, 97, 98>>          \* 5:ab
TokLoose == <<105, 43, 48, 51, 101>>    \* i+03e
TokNotText == <<49, 58, 255>>           \* 1:<0xFF>
\* i9223372036854775808e, one more than an i64 holds
TokTooBig == <<105>> \o I64MinMag \o <<101>>

Tokens == {TokList, TokDict, TokEnd, TokNeg, TokStrA, TokEmpty, TokNoDigits,
           TokShort, TokLoose, TokNotText, TokTooBig}

\* The most pieces of a buffer after its opening
MaxTok == 3

RECURSIVE TokSeqs(_)
TokSeqs(n) ==
    IF n = 0 THEN {<<>>}
    ELSE LET shorter == TokSeqs(n - 1) IN
         shorter \cup {t \o x : t \in Tokens, x \in shorter}

\* What a buffer opens with: nothing (the value is at the top level), or the
\* start of a list or dictionary that leaves the decoder about to read a value
\* (or, in the first two, a key) at some nesting depth.
CtxTop == <<>>
CtxList == <<108>>                                  \* l
CtxListSecond == <<108, 105, 48, 101>>              \* li0e
CtxDictKey == <<100>>                               \* d
CtxDictValue == <<100, 49, 58, 97>>                 \* d1:a
CtxDictSecondKey == <<100, 48, 58, 48, 58>>         \* d0:0:
CtxDictAfterB == <<100, 49, 58, 98, 48, 58>>        \* d1:b0:
CtxDeep == <<100, 49, 58, 97, 108>>                 \* d1:al

\* Openings after which the decoder reads a value and nothing else will do
ValueContexts == {CtxTop, CtxDictValue}
\* Openings after which the decoder reads an element or key, unless it finds 'e'
ElementContexts == {CtxList, CtxListSecond, CtxDictKey, CtxDictSecondKey,
                    CtxDictAfterB, CtxDeep}
Contexts == ValueContexts \cup ElementContexts

CodecInputs == {c \o x : c \in Contexts, x \in TokSeqs(MaxTok)}

NotCalled == [ok |-> FALSE, msg |-> "not called"]

MainIdle ==
    /\ command = <<>>
    /\ cts = <<>>
    /\ shape = "none"
    /\ src_info = <<>>
    /\ pc = "idle"
    /\ stdout = <<>>
    /\ panic = NoPanic
    /\ net = <<>>
    /\ metainf = "none"
    /\ hashed = <<>>
    /\ infohash = <<>>
    /\ body = <<>>
    /\ bshape = NoBody
    /\ peers = <<>>

CodecInit ==
    /\ input \in CodecInputs
    /\ cpc = "start"
    /\ result = NotCalled
    /\ reenc = <<>>
    /\ MainIdle

\* let (value, rest) = decode_bencoded_value(input), or the panic
CallDecode ==
    /\ cpc = "start"
    /\ result' = decode_bencoded_value(input)
    /\ cpc' = IF result'.ok THEN "decoded" ELSE "panicked"
    /\ UNCHANGED <<input, reenc>>
    /\ UNCHANGED mvars

\* value.serialize()
CallSerialize ==
    /\ cpc = "decoded"
    /\ reenc' = serialize(result.value)
    /\ cpc' = "serialized"
    /\ UNCHANGED <<input, result>>
    /\ UNCHANGED mvars

CodecNext == CallDecode \/ CallSerialize

SpecCodec == CodecInit /\ [][CodecNext]_vars

----------------------------------------------------------------------------
(* One run of main: the torrent files, the digests and the tracker         *)
(* responses it may meet.                                                  *)

\* A bencoded byte string and a bencoded integer, for putting inputs together
Bs(v) == ToDec(Len(v)) \o <<Ch.colon>> \o v
Bi(text) == <<Ch.i>> \o text \o <<Ch.e>>

TrackerUrl == <<104, 116, 116, 112, 58, 47, 47, 116, 47, 97>>     \* http://t/a
NotAUrl == <<116>>                                                \* t
NameText == <<120>>                                               \* x
NotText == <<255>>
KeyPrivate == <<112, 114, 105, 118, 97, 116, 101>>                \* private

\* n bytes of piece hashes
PieceBytes(n) == [k \in 1..n |-> (k * 29 + 100) % 256]

\* A file as the specification describes it, with one 20-byte piece hash
GoodFile == [top |-> "dict", announce |-> "url", info |-> "dict", name |-> "text",
             plen |-> "int", pieces |-> "p20", length |-> "int", extra |-> "none"]

\* The files: the good one, and those that differ from it in one place
FileShapes ==
    {GoodFile}
    \cup {[GoodFile EXCEPT !.top = v] : v \in {"list", "empty"}}
    \cup {[GoodFile EXCEPT !.announce = v] : v \in {"absent", "int", "nourl"}}
    \cup {[GoodFile EXCEPT !.info = v] : v \in {"absent", "string"}}
    \cup {[GoodFile EXCEPT !.name = v] : v \in {"absent", "int", "nottext"}}
    \cup {[GoodFile EXCEPT !.plen = v] : v \in {"absent", "string", "neg"}}
    \cup {[GoodFile EXCEPT !.pieces = v] : v \in {"absent", "int", "p0", "p21", "p40"}}
    \cup {[GoodFile EXCEPT !.length = v] : v \in {"absent", "string", "neg"}}
    \cup {[GoodFile EXCEPT !.extra = v] : v \in {"private"}}

\* An entry of a dictionary, or nothing when the key is absent
Entry(key, how, encodings) == IF how = "absent" THEN <<>> ELSE Bs(key) \o encodings[how]

\* The bytes of the info dictionary of a file, keys in ascending order
InfoBytes(sh) ==
    <<Ch.d>>
        \o Entry(KeyLength, sh.length,
                 [int |-> Bi(<<49, 50>>), string |-> Bs(<<49, 50>>), neg |-> Bi(<<45, 53>>)])
        \o Entry(KeyName, sh.name,
                 [text |-> Bs(NameText), int |-> Bi(<<55>>), nottext |-> Bs(NotText)])
        \o Entry(KeyPieceLength, sh.plen,
                 [int |-> Bi(<<49, 54>>), string |-> Bs(<<49, 54>>), neg |-> Bi(<<45, 49>>)])
        \o Entry(KeyPieces, sh.pieces,
                 [p20 |-> Bs(PieceBytes(20)), p40 |-> Bs(PieceBytes(40)), p0 |-> Bs(<<>>),
                  p21 |-> Bs(PieceBytes(21)), int |-> Bi(<<50, 48>>)])
        \o Entry(KeyPrivate, IF sh.extra = "private" THEN "int" ELSE "absent",
                 [int |-> Bi(<<49>>)])
        \o <<Ch.e>>

InfoValueBytes(sh) == IF sh.info = "dict" THEN InfoBytes(sh) ELSE Bs(NameText)

FileBytes(sh) ==
    IF sh.top = "empty" THEN <<>>
    ELSE IF sh.top = "list" THEN <<Ch.l, Ch.e>>
    ELSE <<Ch.d>>
         \o Entry(KeyAnnounce, sh.announce,
                  [url |-> Bs(TrackerUrl), int |-> Bi(<<55>>), nourl |-> Bs(NotAUrl)])
         \o (IF sh.info = "absent" THEN <<>> ELSE Bs(KeyInfo) \o InfoValueBytes(sh))
         \o <<Ch.e>>

\* Sha1 is not computed: finalize() returns one of these 20 bytes.
\* 00 01 .. 13 (hexadecimal)
DigestLow == [k \in 1..20 |-> k - 1]
\* the characters kept as they are, and their neighbours
DigestEdges == <<48, 57, 65, 90, 97, 122, 45, 46, 95, 126, 47, 58, 64, 91, 96, 123, 127, 255,
                 37, 32>>
\* d69f91e6b2ae4c542468d1073a71d4ea13879a7f
DigestSample == <<214, 159, 145, 230, 178, 174, 76, 84, 36, 104, 209, 7, 58, 113, 212, 234,
                  19, 135, 154, 127>>
Digests == {DigestLow, DigestEdges, DigestSample}

\* The most whole 6-byte records of a peers string
MaxPeers == 2

\* The bytes of a peers string: 192.168.1.1:6881 first
PeerByte(k) == IF k <= 6 THEN <<192, 168, 1, 1, 26, 225>>[k] ELSE (k * 37 + 11) % 256
PeerBytes(n) == [k \in 1..n |-> PeerByte(k)]

BadRequest == <<98, 97, 100, 32, 114, 101, 113, 117, 101, 115, 116>>      \* bad request
KeyInterval == <<105, 110, 116, 101, 114, 118, 97, 108>>                  \* interval

\* The responses: a dictionary with or without a failure reason (text, bytes
\* that are no text, an integer) and with or without peers (an integer, a
\* list, a byte string of n bytes), or no dictionary at all
BodyShapes ==
    {[top |-> "dict", fr |-> f, peers |-> q, n |-> 0] :
        f \in {"absent", "text", "nottext", "int"}, q \in {"absent", "int", "list"}}
    \cup {[top |-> "dict", fr |-> f, peers |-> "string", n |-> n] :
        f \in {"absent", "text", "nottext", "int"}, n \in 0..(6 * MaxPeers + 5)}
    \cup {[top |-> t, fr |-> "absent", peers |-> "absent", n |-> 0] :
        t \in {"int", "html", "empty"}}

BodyBytes(bs) ==
    IF bs.top = "int" THEN Bi(<<53>>)
    ELSE IF bs.top = "html" THEN <<60, 104, 116, 109, 108, 62>>
    ELSE IF bs.top = "empty" THEN <<>>
    ELSE <<Ch.d>>
         \o Entry(KeyFailureReason, bs.fr,
                  [text |-> Bs(BadRequest), nottext |-> Bs(<<98, 255, 97>>), int |-> Bi(<<52>>)])
         \o Bs(KeyInterval) \o Bi(<<54, 48>>)
         \o Entry(KeyPeers, bs.peers,
                  [int |-> Bi(<<54>>), list |-> <<Ch.l, Ch.e>>, string |-> Bs(PeerBytes(bs.n))])
         \o <<Ch.e>>

CmdHandshake == <<104, 97, 110, 100, 115, 104, 97, 107, 101>>     \* handshake
Commands == {CmdPeers, CmdInfo, CmdHandshake}

CodecIdle ==
    /\ input = <<>>
    /\ cpc = "idle"
    /\ result = NotCalled
    /\ reenc = <<>>

Init ==
    /\ CodecIdle
    /\ command \in Commands
    /\ shape \in FileShapes
    /\ cts = FileBytes(shape)
    /\ src_info = InfoValueBytes(shape)
    /\ pc = "start"
    /\ stdout = <<>>
    /\ panic = NoPanic
    /\ net = <<>>
    /\ metainf = "none"
    /\ hashed = <<>>
    /\ infohash = <<>>
    /\ body = <<>>
    /\ bshape = NoBody
    /\ peers = <<>>

\* A panic: the message goes to stderr and the process ends
Die(p) ==
    /\ panic' = p
    /\ pc' = "panicked"

\* lines 190-213 and 333-356: the file is read whole; an empty one is a panic
ReadFile ==
    /\ pc = "start"
    /\ command \in {CmdPeers, CmdInfo}
    /\ IF cts = <<>>
       THEN Die(Abort("nothing read from torrent file", <<>>))
       ELSE pc' = "read" /\ UNCHANGED panic
    /\ UNCHANGED <<command, cts, shape, src_info, stdout, net, metainf, hashed, infohash,
                   body, bshape, peers>>
    /\ UNCHANGED cvars

\* lines 214-247
PeersProject ==
    /\ pc = "read"
    /\ command = CmdPeers
    /\ LET r == decode_bencoded_value(cts) IN
       IF ~r.ok
       THEN Die(Abort(r.msg, <<>>)) /\ UNCHANGED metainf
       ELSE LET m == ProjectMetainfo(r.value) IN
            IF m.msg # ""
            THEN Die(m) /\ UNCHANGED metainf
            ELSE metainf' = m /\ pc' = "projected" /\ UNCHANGED panic
    /\ UNCHANGED <<command, cts, shape, src_info, stdout, net, hashed, infohash, body,
                   bshape, peers>>
    /\ UNCHANGED cvars

\* lines 248-252
PeersHash ==
    /\ pc = "projected"
    /\ hashed' = serialize(metainf.info_dict)
    /\ infohash' \in Digests
    /\ pc' = "hashed"
    /\ UNCHANGED <<command, cts, shape, src_info, stdout, panic, net, metainf, body,
                   bshape, peers>>
    /\ UNCHANGED cvars

\* lines 253-294: the request is built, sent, and the response read whole
PeersAnnounce ==
    /\ pc = "hashed"
    /\ command = CmdPeers
    /\ IF ~IsUrl(metainf.tracker)
       THEN /\ Die(Abort("failed to create valid peers request", <<>>))
            /\ UNCHANGED <<net, body, bshape>>
       ELSE /\ net' = Append(net, [op |-> "GET", url |-> metainf.tracker,
                                   query |-> RequestQuery(metainf.length, infohash)])
            /\ \/ /\ Die(Abort("failed to get from tracker", <<>>))
                  /\ UNCHANGED <<body, bshape>>
               \/ /\ bshape' \in BodyShapes
                  /\ body' = BodyBytes(bshape')
                  /\ pc' = "responded"
                  /\ UNCHANGED panic
    /\ UNCHANGED <<command, cts, shape, src_info, stdout, metainf, hashed, infohash, peers>>
    /\ UNCHANGED cvars

\* lines 296-327
PeersInterpret ==
    /\ pc = "responded"
    /\ LET r == decode_bencoded_value(body) IN
       IF ~r.ok
       THEN Die(Abort(r.msg, <<>>)) /\ UNCHANGED peers
       ELSE LET t == TrackerResponse(r.value) IN
            IF t.msg # ""
            THEN Die(t) /\ UNCHANGED peers
            ELSE peers' = t.peers /\ pc' = "printing" /\ UNCHANGED panic
    /\ UNCHANGED <<command, cts, shape, src_info, stdout, net, metainf, hashed, infohash,
                   body, bshape>>
    /\ UNCHANGED cvars

\* lines 328-330: one println per peer, then main returns
PeersPrint ==
    /\ pc = "printing"
    /\ IF Len(stdout) < Len(peers)
       THEN stdout' = Append(stdout, DisplayAddr(peers[Len(stdout) + 1])) /\ pc' = pc
       ELSE pc' = "done" /\ UNCHANGED stdout
    /\ UNCHANGED <<command, cts, shape, src_info, panic, net, metainf, hashed, infohash,
                   body, bshape, peers>>
    /\ UNCHANGED cvars

\* line 357
InfoDeserialize ==
    /\ pc = "read"
    /\ command = CmdInfo
    /\ LET m == serde_from_bytes(cts) IN
       IF ~m.ok
       THEN Die(Abort("could not deserialize metainfo file", <<>>)) /\ UNCHANGED metainf
       ELSE metainf' = m /\ pc' = "deserialized" /\ UNCHANGED panic
    /\ UNCHANGED <<command, cts, shape, src_info, stdout, net, hashed, infohash, body,
                   bshape, peers>>
    /\ UNCHANGED cvars

\* lines 358-359
InfoPrintSummary ==
    /\ pc = "deserialized"
    /\ stdout' = stdout \o <<TxtTrackerUrl \o metainf.announce,
                             TxtLength \o I64ToString(metainf.info.length)>>
    /\ pc' = "summarised"
    /\ UNCHANGED <<command, cts, shape, src_info, panic, net, metainf, hashed, infohash,
                   body, bshape, peers>>
    /\ UNCHANGED cvars

\* lines 360-363
InfoHash ==
    /\ pc = "summarised"
    /\ hashed' = serde_to_bytes(metainf.info)
    /\ infohash' \in Digests
    /\ stdout' = Append(stdout, TxtInfoHash \o HexEncode(infohash'))
    /\ pc' = "hash printed"
    /\ UNCHANGED <<command, cts, shape, src_info, panic, net, metainf, body, bshape, peers>>
    /\ UNCHANGED cvars

\* lines 364-368
InfoPrintPieces ==
    /\ pc = "hash printed"
    /\ LET phs == Chunks(metainf.info.pieces, 20) IN
       stdout' = stdout
                 \o <<TxtPieceLength \o I64ToString(metainf.info.piece_length), TxtPieceHashes>>
                 \o [k \in 1..Len(phs) |-> HexEncode(phs[k])]
    /\ pc' = "done"
    /\ UNCHANGED <<command, cts, shape, src_info, panic, net, metainf, hashed, infohash,
                   body, bshape, peers>>
    /\ UNCHANGED cvars

\* lines 370-372: any command that is none of decode, peers and info
UnknownCommand ==
    /\ pc = "start"
    /\ command \notin {CmdDecode, CmdPeers, CmdInfo}
    /\ stdout' = Append(stdout, TxtUnknown \o command)
    /\ pc' = "done"
    /\ UNCHANGED <<command, cts, shape, src_info, panic, net, metainf, hashed, infohash,
                   body, bshape, peers>>
    /\ UNCHANGED cvars

Next ==
    \/ ReadFile
    \/ PeersProject
    \/ PeersHash
    \/ PeersAnnounce
    \/ PeersInterpret
    \/ PeersPrint
    \/ InfoDeserialize
    \/ InfoPrintSummary
    \/ InfoHash
    \/ InfoPrintPieces
    \/ UnknownCommand

Spec == Init /\ [][Next]_vars

----------------------------------------------------------------------------
(* The canonical bencoding, read off the wire format alone: byte strings   *)
(* as <decimal length>:<bytes>, integers as i<decimal>e in minimal form    *)
(* and within 64 bits, lists as l...e, dictionaries as d...e with text     *)
(* keys in strictly ascending byte order.  CanonLen(x) is the length of    *)
(* the canonical value x starts with, or 0 when it starts with none.       *)

CanonStringLen(x) ==
    LET c == FirstIndex(x, Ch.colon) IN
    IF c < 2 \/ c - 1 > IndexDigits THEN 0
    ELSE LET ds == SubSeq(x, 1, c - 1) IN
         IF \E k \in 1..Len(ds) : ~IsDigit(ds[k]) THEN 0
         ELSE IF Len(ds) > 1 /\ ds[1] = Ch.zero THEN 0
         ELSE IF c + DigitsToNat(ds) > Len(x) THEN 0
         ELSE c + DigitsToNat(ds)

CanonIntegerLen(x) ==
    LET k == FirstIndex(x, Ch.e) IN
    IF k < 3 THEN 0
    ELSE LET neg == x[2] = Ch.minus
             ds == SubSeq(x, IF neg THEN 3 ELSE 2, k - 1)
         IN  IF ds = <<>> \/ \E j \in 1..Len(ds) : ~IsDigit(ds[j]) THEN 0
             ELSE IF ds[1] = Ch.zero /\ (Len(ds) > 1 \/ neg) THEN 0
             ELSE IF ~MagLeq(ds, IF neg THEN I64MinMag ELSE I64MaxMag) THEN 0
             ELSE k

RECURSIVE CanonLen(_)
RECURSIVE CanonItems(_)
RECURSIVE CanonEntries(_, _, _)

\* The length of the canonical elements x starts with, up to and with the 'e'
CanonItems(x) ==
    IF x = <<>> THEN 0
    ELSE IF x[1] = Ch.e THEN 1
    ELSE LET n == CanonLen(x) IN
         IF n = 0 THEN 0
         ELSE LET m == CanonItems(SubSeq(x, n + 1, Len(x))) IN
              IF m = 0 THEN 0 ELSE n + m

\* The same for dictionary entries; every key is above `last` unless `first`
CanonEntries(x, first, last) ==
    IF x = <<>> THEN 0
    ELSE IF x[1] = Ch.e THEN 1
    ELSE IF ~IsDigit(x[1]) THEN 0
    ELSE LET kn == CanonStringLen(x) IN
         IF kn = 0 THEN 0
         ELSE LET key == SubSeq(x, FirstIndex(x, Ch.colon) + 1, kn)
                  vn == CanonLen(SubSeq(x, kn + 1, Len(x)))
              IN  IF ~IsUtf8(key) \/ (~first /\ ~LexLess(last, key)) \/ vn = 0 THEN 0
                  ELSE LET m == CanonEntries(SubSeq(x, kn + vn + 1, Len(x)), FALSE, key) IN
                       IF m = 0 THEN 0 ELSE kn + vn + m

CanonLen(x) ==
    IF x = <<>> THEN 0
    ELSE IF IsDigit(x[1]) THEN CanonStringLen(x)
    ELSE IF x[1] = Ch.i THEN CanonIntegerLen(x)
    ELSE IF x[1] = Ch.l THEN
        LET m == CanonItems(Tail(x)) IN IF m = 0 THEN 0 ELSE 1 + m
    ELSE IF x[1] = Ch.d THEN
        LET m == CanonEntries(Tail(x), TRUE, <<>>) IN IF m = 0 THEN 0 ELSE 1 + m
    ELSE 0

\* x is one canonical value and nothing else
Canonical(x) == x # <<>> /\ CanonLen(x) = Len(x)

IsPrefix(p, x) == Len(p) <= Len(x) /\ SubSeq(x, 1, Len(p)) = p
Drop(x, n) == SubSeq(x, n + 1, Len(x))

\* C1: round trip.  Whenever the buffer is one canonical value, decode returns
\* (it does not panic), leaves nothing over, and serializing the value it
\* returned gives the buffer back byte for byte.
C1_RoundTrip ==
    Canonical(input) =>
        /\ cpc # "panicked"
        /\ cpc \in {"decoded", "serialized"} => result.ok /\ result.rest = <<>>
        /\ cpc = "serialized" => reenc = input

\* C1 witness: a canonical dictionary of two entries, the second an integer
\* below zero, has been decoded and serialized
C1_Witness ==
    /\ cpc = "serialized"
    /\ Canonical(input)
    /\ result.value.tag = "Dict"
    /\ Len(result.value.v) = 2
    /\ result.value.v[2][2].tag = "Integer"
    /\ result.value.v[2][2].v.neg

----------------------------------------------------------------------------
(* What makes a buffer malformed at the place the decoder is about to read *)
(* a value, stated on the bytes.  `ctx` is what the buffer opened with and *)
(* `core` what follows it: the decoder, at the top level or inside the     *)
(* lists and dictionaries ctx opened, is handed exactly core.              *)

KeyContexts == {CtxDictKey, CtxDictSecondKey, CtxDictAfterB}

\* s is an optional sign and one or more digits, and fits an i64
IsI64Text(s) ==
    LET signed == s # <<>> /\ (s[1] = Ch.minus \/ s[1] = Ch.plus)
        ds == IF signed THEN Tail(s) ELSE s
    IN  /\ ds # <<>>
        /\ \A k \in 1..Len(ds) : IsDigit(ds[k])
        /\ MagLeq(StripZeros(ds), IF s[1] = Ch.minus THEN I64MinMag ELSE I64MaxMag)

\* the leading tag byte is none of 'd', 'l', 'i' and a digit
BadTag(core) ==
    /\ core # <<>>
    /\ core[1] \notin {Ch.d, Ch.l, Ch.i}
    /\ ~IsDigit(core[1])

\* an integer whose digits, up to the first 'e' or the end, do not parse
IntegerNoParse(core) ==
    /\ core # <<>>
    /\ core[1] = Ch.i
    /\ ~IsI64Text(Numerals(Tail(core)))

\* a string whose declared length is more than the bytes that follow the ':'
StringTooLong(core) ==
    /\ core # <<>>
    /\ IsDigit(core[1])
    /\ LET c == FirstIndex(core, Ch.colon)
           ds == SubSeq(core, 1, c - 1)
       IN  /\ c > 0
           /\ \A k \in 1..Len(ds) : IsDigit(ds[k])
           /\ \/ Len(StripZeros(ds)) > IndexDigits
              \/ DigitsToNat(StripZeros(ds)) > Len(core) - c

\* a dictionary key that is an integer, a list or a dictionary
KeyNotString(ctx, core) ==
    /\ ctx \in KeyContexts
    /\ core # <<>>
    /\ core[1] \in {Ch.d, Ch.l, Ch.i}

Malformed(ctx, core) ==
    \/ core = <<>>
    \/ BadTag(core) /\ (core[1] = Ch.e => ctx \in ValueContexts)
    \/ IntegerNoParse(core)
    \/ StringTooLong(core)
    \/ KeyNotString(ctx, core)

\* The bytes decode took: the buffer less what it returned as remaining
Consumed(buf, res) == Len(buf) - Len(res.rest)

\* C2: decode fails, and returns no value, on every buffer that is malformed
\* where a value is read: a leading tag byte that is none of 'd', 'l', 'i' and
\* a digit, integer digits that do not parse, a declared string length beyond
\* the buffer, a dictionary key that is no byte string, the end of the input
\* where a value or a terminator is due.  This at the top level and inside the
\* lists and dictionaries the buffer opened with; and every buffer cut short
\* of a value decode accepts is rejected.
C2_Rejects ==
    /\ \A ctx \in Contexts :
           (cpc # "start" /\ IsPrefix(ctx, input) /\ Malformed(ctx, Drop(input, Len(ctx))))
               => (cpc = "panicked" /\ ~result.ok)
    /\ cpc \in {"decoded", "serialized"} =>
           \A m \in 0..(Consumed(input, result) - 1) :
               ~decode_bencoded_value(SubSeq(input, 1, m)).ok

\* C2 witness: a string that declares more bytes than are left, two levels
\* down (a list inside a dictionary), has made decode panic
C2_Witness ==
    /\ cpc = "panicked"
    /\ IsPrefix(CtxDeep, input)
    /\ StringTooLong(Drop(input, Len(CtxDeep)))

\* decode_bencoded_value on every value in turn, for a buffer that is nothing
\* but values
RECURSIVE DecodeAll(_)
DecodeAll(buf) ==
    IF buf = <<>> THEN <<>>
    ELSE LET r == decode_bencoded_value(buf) IN
         IF ~r.ok THEN <<r>>
         ELSE <<r>> \o DecodeAll(r.rest)

\* The dictionary of the entries k1 v1 k2 v2 ... that DecodeAll found
RECURSIVE EntriesOf(_, _)
EntriesOf(rs, d) ==
    IF Len(rs) < 2 THEN d
    ELSE EntriesOf(SubSeq(rs, 3, Len(rs)), BTreeInsert(d, rs[1].value.v, rs[2].value))

\* The leftover law for one call: decode of buf returned res
Leftover(buf, res) ==
    LET n == Consumed(buf, res)
        prefix == SubSeq(buf, 1, n)
    IN  /\ n >= 1
        /\ n <= Len(buf)
        \* remaining is a suffix of the buffer
        /\ res.rest = SubSeq(buf, n + 1, Len(buf))
        \* the bytes taken are one whole value, the one returned
        /\ decode_bencoded_value(prefix) = Decoded(res.value, <<>>)
        \* a list or dictionary ends at its own 'e', and between its tag and
        \* that 'e' lie its elements, each taken whole
        /\ res.value.tag \in {"List", "Dict"} =>
               /\ buf[n] = Ch.e
               /\ LET inner == DecodeAll(SubSeq(buf, 2, n - 1)) IN
                  /\ \A k \in 1..Len(inner) : inner[k].ok
                  /\ res.value.tag = "List" =>
                         res.value.v = [k \in 1..Len(inner) |-> inner[k].value]
                  /\ res.value.tag = "Dict" =>
                         /\ Len(inner) % 2 = 0
                         /\ res.value.v = EntriesOf(inner, <<>>)

\* C10: leftover bytes.  Whenever decode returns (value, remaining), remaining
\* is a suffix of the buffer and the bytes before it are exactly one whole
\* value; a list or dictionary ends right after its own 'e' and its elements
\* are each taken whole.  This for the call itself and for every nested call:
\* a nested call is handed a suffix of the buffer.
C10_Leftover ==
    /\ cpc \in {"decoded", "serialized"} => Leftover(input, result)
    /\ cpc # "start" =>
           \A k \in 2..Len(input) :
               LET buf == SubSeq(input, k, Len(input))
                   res == decode_bencoded_value(buf)
               IN  res.ok => Leftover(buf, res)

\* C10 witness: a dictionary holding a list has been decoded with bytes left
\* over after the dictionary's 'e'
C10_Witness ==
    /\ cpc = "decoded"
    /\ result.value.tag = "Dict"
    /\ Len(result.value.v) = 1
    /\ result.value.v[1][2].tag = "List"
    /\ result.rest # <<>>

----------------------------------------------------------------------------
(* Claims about one run of main *)

\* A file that has everything the specification asks of a metainfo file
\* (other keys may be there as well)
Compliant(sh) ==
    /\ sh.top = "dict"
    /\ sh.announce = "url"
    /\ sh.info = "dict"
    /\ sh.name = "text"
    /\ sh.plen = "int"
    /\ sh.pieces \in {"p20", "p40"}
    /\ sh.length = "int"

\* C3, as claimed: for a compliant file, the bytes fed to the hash are the
\* bytes of the info dictionary in the file, in the info command as in the
\* peers command.
C3_HashedBytesAreSource ==
    (command \in {CmdPeers, CmdInfo} /\ Compliant(shape) /\ hashed # <<>>)
        => hashed = src_info

\* A file the specification says parse must refuse: the top level no
\* dictionary, a required key absent or of the wrong variant, a pieces
\* length that is no multiple of 20
SchemaInvalid(sh) ==
    \/ sh.top # "dict"
    \/ sh.announce \in {"absent", "int"}
    \/ sh.info \in {"absent", "string"}
    \/ sh.name \in {"absent", "int"}
    \/ sh.plen \in {"absent", "string"}
    \/ sh.pieces \in {"absent", "int", "p21"}
    \/ sh.length \in {"absent", "string"}

\* C8, as claimed: on such a file neither command prints a summary, hashes
\* an info dictionary, sends a tracker request or ends well.
C8_SchemaRefused ==
    (command \in {CmdPeers, CmdInfo} /\ SchemaInvalid(shape))
        => /\ stdout = <<>>
           /\ hashed = <<>>
           /\ net = <<>>
           /\ pc # "done"

\* C9, as claimed: a handshake command that has ended has written the 68
\* bytes of the handshake to the peer and printed the peer id it read.
C9_HandshakeDone ==
    (command = CmdHandshake /\ pc = "done")
        => /\ \E k \in 1..Len(net) : net[k].op = "tcp_write" /\ Len(net[k].bytes) = 68
           /\ \E k \in 1..Len(stdout) : ~IsPrefix(TxtUnknown, stdout[k])

\* The response is a dictionary with a failure reason that is a byte string
HasFailureText(bs) == bs.top = "dict" /\ bs.fr \in {"text", "nottext"}

\* The text of the failure reason as a message carries it
FailureText(bs) == IF bs.fr = "text" THEN BadRequest ELSE <<98>> \o Replacement \o <<97>>

\* C4: when the response holds a failure reason (a byte string), whatever it
\* holds as peers, no peer list is made, nothing is printed, and the step ends
\* in the panic that carries the reason's text.
C4_FailureReason ==
    HasFailureText(bshape) =>
        /\ pc \in {"responded", "panicked"}
        /\ peers = <<>>
        /\ stdout = <<>>
        /\ pc = "panicked" =>
               panic = Abort("tracker responded with an error: ", FailureText(bshape))

\* C4 witness: a response with the failure reason "bad request" and a peers
\* string of one whole record has ended in the panic
C4_Witness ==
    /\ pc = "panicked"
    /\ bshape.top = "dict"
    /\ bshape.fr = "text"
    /\ bshape.peers = "string"
    /\ bshape.n = 6
    /\ panic.text = BadRequest

\* peers is absent, no byte string, or of a length that is no multiple of 6
BadPeers(bs) == bs.peers \in {"absent", "int", "list"} \/ (bs.peers = "string" /\ bs.n % 6 # 0)

\* C5: when the response holds no failure reason and peers is absent, no byte
\* string, or of a length that is no multiple of 6, the step ends in a panic
\* and no peer address is printed before it.
C5_BadPeers ==
    (bshape.top = "dict" /\ bshape.fr = "absent" /\ BadPeers(bshape)) =>
        /\ pc \in {"responded", "panicked"}
        /\ stdout = <<>>
        /\ pc = "panicked" =>
               panic.msg \in {"tracker response does not contain peers key",
                              "tracker response contains peers not encoded as string",
                              "range end index 4 out of range for slice",
                              "range end index 6 out of range for slice"}

\* C5 witness: a peers string of 7 bytes has ended in a panic
C5_Witness ==
    /\ pc = "panicked"
    /\ bshape.top = "dict"
    /\ bshape.fr = "absent"
    /\ bshape.peers = "string"
    /\ bshape.n = 7

\* The k-th address of the peers string, read off its bytes
ExpectedPeer(k) ==
    [ip |-> <<PeerByte(6 * k - 5), PeerByte(6 * k - 4), PeerByte(6 * k - 3), PeerByte(6 * k - 2)>>,
     port |-> 256 * PeerByte(6 * k - 1) + PeerByte(6 * k)]

ExpectedLine(k) ==
    LET p == ExpectedPeer(k) IN
    ToDec(p.ip[1]) \o <<46>> \o ToDec(p.ip[2]) \o <<46>> \o ToDec(p.ip[3]) \o <<46>>
        \o ToDec(p.ip[4]) \o <<58>> \o ToDec(p.port)

\* 192.168.1.1:6881
FirstPeerLine == <<49, 57, 50, 46, 49, 54, 56, 46, 49, 46, 49, 58, 54, 56, 56, 49>>

\* C6: a peers string of 6n bytes gives exactly n addresses in the order of
\* the records, the k-th with the octets of bytes 6k..6k+3 and the port
\* 256*byte[6k+4] + byte[6k+5] (counting from 0), and they are printed in that
\* order; [192,168,1,1,0x1A,0xE1] is printed as 192.168.1.1:6881.
C6_CompactPeers ==
    (/\ bshape.top = "dict"
     /\ bshape.peers = "string"
     /\ bshape.n % 6 = 0
     /\ ~HasFailureText(bshape)) =>
        /\ pc \in {"responded", "printing", "done"}
        /\ pc \in {"printing", "done"} =>
               /\ Len(peers) = bshape.n \div 6
               /\ \A k \in 1..Len(peers) : peers[k] = ExpectedPeer(k)
               /\ Len(stdout) <= Len(peers)
               /\ \A k \in 1..Len(stdout) : stdout[k] = ExpectedLine(k)
               /\ Len(stdout) >= 1 => stdout[1] = FirstPeerLine
               /\ pc = "done" => Len(stdout) = Len(peers)

\* C6 witness: both addresses of a peers string of 12 bytes have been printed
C6_Witness ==
    /\ pc = "done"
    /\ command = CmdPeers
    /\ bshape.peers = "string"
    /\ bshape.n = 12
    /\ Len(stdout) = 2

\* The characters percent-encoding leaves as they are: the ASCII letters and
\* digits and - . _ ~
Unreserved == (48..57) \cup (65..90) \cup (97..122) \cup {45, 46, 95, 126}

\* 0123456789ABCDEF
HexChars == <<48, 49, 50, 51, 52, 53, 54, 55, 56, 57, 65, 66, 67, 68, 69, 70>>

\* Where the encoding of byte k of the hash starts, less one
RECURSIVE EncOffset(_, _)
EncOffset(hash, k) ==
    IF k = 1 THEN 0
    ELSE EncOffset(hash, k - 1) + (IF hash[k - 1] \in Unreserved THEN 1 ELSE 3)

\* enc is the percent-encoding of hash: byte by byte in order, the byte
\* itself when unreserved, otherwise '%' and its two upper case hex digits
PercentEncoded(hash, enc) ==
    /\ Len(enc) = EncOffset(hash, Len(hash) + 1)
    /\ \A k \in 1..Len(hash) :
           LET at == EncOffset(hash, k) IN
           IF hash[k] \in Unreserved
           THEN enc[at + 1] = hash[k]
           ELSE /\ enc[at + 1] = 37
                /\ enc[at + 2] = HexChars[(hash[k] \div 16) + 1]
                /\ enc[at + 3] = HexChars[(hash[k] % 16) + 1]

\* %00%01 .. %13
DigestLowEncoded ==
    <<37, 48, 48, 37, 48, 49, 37, 48, 50, 37, 48, 51, 37, 48, 52, 37, 48, 53, 37, 48, 54, 37,
      48, 55, 37, 48, 56, 37, 48, 57, 37, 48, 65, 37, 48, 66, 37, 48, 67, 37, 48, 68, 37, 48,
      69, 37, 48, 70, 37, 49, 48, 37, 49, 49, 37, 49, 50, 37, 49, 51>>

\* The query of the request up to and with "&info_hash=", read off the file
ExpectedQueryHead ==
    QueryHead \o (IF shape.length = "neg" THEN <<45, 53>> ELSE <<49, 50>>) \o QueryTail
        \o QueryInfoHash

\* C7: the query of the tracker request ends with info_hash= and the
\* percent-encoding of the 20 bytes of the hash, byte by byte in order, exactly
\* as encoded (nothing is escaped again); 00 01 .. 13 goes out as %00%01..%13.
C7_PercentEncoding ==
    net # <<>> =>
        /\ Len(net) = 1
        /\ Len(infohash) = 20
        /\ IsPrefix(ExpectedQueryHead, net[1].query)
        /\ PercentEncoded(infohash, Drop(net[1].query, Len(ExpectedQueryHead)))
        /\ infohash = DigestLow =>
               Drop(net[1].query, Len(ExpectedQueryHead)) = DigestLowEncoded

\* C7 witness: a request has gone out for a hash that holds every character
\* kept as it is next to characters that are escaped
C7_Witness ==
    /\ net # <<>>
    /\ infohash = DigestEdges
    /\ pc = "responded"

====
